---- MODULE Spec2Model ----
(***************************************************************************)
(* The lgtm plugin of prow (prow/plugins/lgtm/lgtm.go): the comment        *)
(* handler `handle`, the pull-request handler `handlePullRequest` and      *)
(* their helpers, as a state machine over one handler invocation and the   *)
(* remote state of one pull request.  Every external call of the code is   *)
(* one step; the environment chooses the outcome of the call.              *)
(***************************************************************************)
EXTENDS Naturals, Sequences, FiniteSets, TLC

VARIABLES
    h,       \* the running handler invocation: event, locals, position, call log, result
    gh,      \* the pull request on the remote platform: labels and comments
    config,  \* plugins.Configuration.Owners.SkipCollaborators
    body,    \* input of the classification specification
    class,   \* its result
    hs,      \* the handler invocations that run concurrently on the pull request
    ownersView,   \* input of the reviewers specification: the ownership view
    changedFiles, \* input of the reviewers specification: the changed files
    reviewerSet   \* its result

vars == <<h, gh, config, body, class, hs, ownersView, changedFiles, reviewerSet>>

-----------------------------------------------------------------------------
(* Bounds *)

\* Comments on the pull request before the handler runs.
MaxComments == 2
\* Lines of a comment body in the classification specification.
MaxBodyLines == 2
\* The changed files of the reviewers specification.
MaxFiles == 2
\* The handlers that run concurrently on one pull request.
NumHandlers == 2

-----------------------------------------------------------------------------
(* Program constants: lgtm.go:32-39 and the github package's event actions *)

lgtmLabel == "lgtm"
removeLGTMLabelNoti == "New changes are detected. LGTM label has been removed."
GenericCommentActionCreated == "created"
PullRequestActionSynchronize == "synchronize"

Nil == "nil"
LabelNotFound == "LabelNotFound"
Error == "error"

-----------------------------------------------------------------------------
(* Strings *)

\* unicode.ToLower on the letters A-Z; logins are written in ASCII.
UpperToLower ==
    ("A" :> "a") @@ ("B" :> "b") @@ ("C" :> "c") @@ ("D" :> "d") @@ ("E" :> "e") @@
    ("F" :> "f") @@ ("G" :> "g") @@ ("H" :> "h") @@ ("I" :> "i") @@ ("J" :> "j") @@
    ("K" :> "k") @@ ("L" :> "l") @@ ("M" :> "m") @@ ("N" :> "n") @@ ("O" :> "o") @@
    ("P" :> "p") @@ ("Q" :> "q") @@ ("R" :> "r") @@ ("S" :> "s") @@ ("T" :> "t") @@
    ("U" :> "u") @@ ("V" :> "v") @@ ("W" :> "w") @@ ("X" :> "x") @@ ("Y" :> "y") @@
    ("Z" :> "z")

CharAt(s, i) == SubSeq(s, i, i)

LowerChar(c) == IF c \in DOMAIN UpperToLower THEN UpperToLower[c] ELSE c

RECURSIVE ToLowerFrom(_, _)
ToLowerFrom(s, i) ==
    IF i > Len(s) THEN "" ELSE LowerChar(CharAt(s, i)) \o ToLowerFrom(s, i + 1)

\* strings.ToLower
ToLower(s) == ToLowerFrom(s, 1)

\* github.NormLogin
NormLogin(login) == ToLower(login)

\* A line of a comment body is the sequence of its runes (code points), so that
\* a body can hold any character.  The runes of the ASCII letters, digits,
\* whitespace and punctuation that the inputs are written with:
RuneOf ==
    ("\t" :> 9) @@ ("\f" :> 12) @@ ("\r" :> 13) @@ (" " :> 32) @@ ("!" :> 33) @@ ("#" :> 35) @@
    ("-" :> 45) @@ ("." :> 46) @@ ("/" :> 47) @@ ("0" :> 48) @@ ("1" :> 49) @@ ("2" :> 50) @@
    ("3" :> 51) @@ ("4" :> 52) @@ ("5" :> 53) @@ ("6" :> 54) @@ ("7" :> 55) @@ ("8" :> 56) @@
    ("9" :> 57) @@ (":" :> 58) @@ ("@" :> 64) @@ ("A" :> 65) @@ ("B" :> 66) @@ ("C" :> 67) @@
    ("D" :> 68) @@ ("E" :> 69) @@ ("F" :> 70) @@ ("G" :> 71) @@ ("H" :> 72) @@ ("I" :> 73) @@
    ("J" :> 74) @@ ("K" :> 75) @@ ("L" :> 76) @@ ("M" :> 77) @@ ("N" :> 78) @@ ("O" :> 79) @@
    ("P" :> 80) @@ ("Q" :> 81) @@ ("R" :> 82) @@ ("S" :> 83) @@ ("T" :> 84) @@ ("U" :> 85) @@
    ("V" :> 86) @@ ("W" :> 87) @@ ("X" :> 88) @@ ("Y" :> 89) @@ ("Z" :> 90) @@ ("_" :> 95) @@
    ("a" :> 97) @@ ("b" :> 98) @@ ("c" :> 99) @@ ("d" :> 100) @@ ("e" :> 101) @@ ("f" :> 102) @@
    ("g" :> 103) @@ ("h" :> 104) @@ ("i" :> 105) @@ ("j" :> 106) @@ ("k" :> 107) @@ ("l" :> 108) @@
    ("m" :> 109) @@ ("n" :> 110) @@ ("o" :> 111) @@ ("p" :> 112) @@ ("q" :> 113) @@ ("r" :> 114) @@
    ("s" :> 115) @@ ("t" :> 116) @@ ("u" :> 117) @@ ("v" :> 118) @@ ("w" :> 119) @@ ("x" :> 120) @@
    ("y" :> 121) @@ ("z" :> 122)

\* The runes of a text written in ASCII.
Runes(s) == [i \in 1..Len(s) |-> RuneOf[SubSeq(s, i, i)]]

\* (?i): the representative of the rune's orbit under Unicode simple case
\* folding.  Besides the two cases of each ASCII letter, the orbit of s holds
\* U+017F (383, LATIN SMALL LETTER LONG S) and the orbit of k holds U+212A
\* (8490, KELVIN SIGN); no other rune folds to a letter of the two patterns.
FoldRune(r) ==
    IF r \in 65..90 THEN r + 32
    ELSE IF r = 383 THEN 115
    ELSE IF r = 8490 THEN 107
    ELSE r

\* The runes \s matches: \t \n \f \r and the space.
Whitespace == {9, 10, 12, 13, 32}

\* (?i): the line s, from position from, continues with the literal lit, each
\* rune matching the literal's rune up to simple case folding.
MatchesLiteralAt(s, from, lit) ==
    /\ Len(s) >= from + Len(lit) - 1
    /\ \A i \in 1..Len(lit) : FoldRune(s[from + i - 1]) = FoldRune(lit[i])

\* \s*$ : only whitespace from position from to the end of the line.
OnlySpaceFrom(s, from) == \A i \in from..Len(s) : s[i] \in Whitespace

\* The literals of lgtm.go:36-37.
lgtmLiteral == Runes("/lgtm")
noIssueLiteral == Runes(" no-issue")
lgtmCancelLiteral == Runes("/lgtm cancel")

\* ^/lgtm(?: no-issue)?\s*$ on one line
LgtmReLine(l) ==
    LET cmd == lgtmLiteral
        opt == noIssueLiteral
    IN  /\ MatchesLiteralAt(l, 1, cmd)
        /\ \/ OnlySpaceFrom(l, Len(cmd) + 1)
           \/ /\ MatchesLiteralAt(l, Len(cmd) + 1, opt)
              /\ OnlySpaceFrom(l, Len(cmd) + Len(opt) + 1)

\* ^/lgtm cancel\s*$ on one line
LgtmCancelReLine(l) ==
    LET cmd == lgtmCancelLiteral
    IN  /\ MatchesLiteralAt(l, 1, cmd)
        /\ OnlySpaceFrom(l, Len(cmd) + 1)

\* lgtmRe.MatchString(e.Body), (?m): some line of the body matches.
lgtmRe(b) == \E i \in 1..Len(b) : LgtmReLine(b[i])

\* lgtmCancelRe.MatchString(e.Body)
lgtmCancelRe(b) == \E i \in 1..Len(b) : LgtmCancelReLine(b[i])

-----------------------------------------------------------------------------
(* handle: the computations between the external calls *)

\* The classification with the cancel pattern tried first.
ClassifyCancelFirst(b) ==
    IF lgtmCancelRe(b) THEN "cancel"
    ELSE IF lgtmRe(b) THEN "approve"
    ELSE "none"

\* lgtm.go:89-96: "approve" is wantLGTM = true, "cancel" is wantLGTM = false,
\* "none" is the early return.
Classify(b) ==
    IF lgtmRe(b) THEN "approve"
    ELSE IF lgtmCancelRe(b) THEN "cancel"
    ELSE "none"

\* The gate that looks at the pull request and its state and not at the action.
ConsideredAnyAction(e) ==
    ~(~e.IsPR \/ e.IssueState # "open")

\* lgtm.go:83
Considered(e) ==
    ~(~e.IsPR \/ e.IssueState # "open" \/ e.Action # GenericCommentActionCreated)

\* lgtm.go:104-110
IsAssignee(e) == \E assignee \in e.Assignees : assignee = e.User

\* lgtm.go:115
IsAuthor(e) == e.User = e.IssueAuthor

\* lgtm.go:229-237
skipCollaborators(cfg, org, repo) ==
    LET full == org \o "/" \o repo
    IN  \E elem \in cfg : elem = org \/ elem = full

\* The chain with the assignment check ahead of the self-approval guard.
AuthBranchAssignFirst(isAuthor, isAssignee, skip, wantLGTM) ==
    IF ~isAssignee /\ ~skip THEN "assign"
    ELSE IF isAuthor /\ wantLGTM THEN "self"
    ELSE IF ~isAuthor /\ skip THEN "owners"
    ELSE "pass"

\* The chain with the owners branch taken for the author too.
AuthBranchOwnersForAll(isAuthor, isAssignee, skip, wantLGTM) ==
    IF isAuthor /\ wantLGTM THEN "self"
    ELSE IF ~isAuthor /\ ~isAssignee /\ ~skip THEN "assign"
    ELSE IF skip THEN "owners"
    ELSE "pass"

\* lgtm.go:116, 120, 135: the branch of the authorization chain that is taken.
AuthBranch(isAuthor, isAssignee, skip, wantLGTM) ==
    IF isAuthor /\ wantLGTM THEN "self"
    ELSE IF ~isAuthor /\ ~isAssignee /\ ~skip THEN "assign"
    ELSE IF ~isAuthor /\ skip THEN "owners"
    ELSE "pass"

\* The loop that keeps the owners of the last file only.
RECURSIVE loadReviewersFromLastOnly(_, _, _)
loadReviewersFromLastOnly(ro, filenames, reviewers) ==
    IF filenames = <<>> THEN reviewers
    ELSE loadReviewersFromLastOnly(ro, Tail(filenames),
            ro[Head(filenames)].approvers \cup ro[Head(filenames)].reviewers)

\* lgtm.go:262-268
RECURSIVE loadReviewersFrom(_, _, _)
loadReviewersFrom(ro, filenames, reviewers) ==
    IF filenames = <<>> THEN reviewers
    ELSE loadReviewersFrom(ro, Tail(filenames),
            (reviewers \cup ro[Head(filenames)].approvers)
                \cup ro[Head(filenames)].reviewers)

loadReviewers(ro, filenames) == loadReviewersFrom(ro, filenames, {})

\* The membership test on the login as written, not normalized.
OwnersAllowRaw(ro, filenames, commentAuthor) ==
    commentAuthor \in loadReviewers(ro, filenames)

\* lgtm.go:145
OwnersAllow(ro, filenames, commentAuthor) ==
    NormLogin(commentAuthor) \in loadReviewers(ro, filenames)

\* lgtm.go:153, 158-163
HasLGTM(labels) == \E candidate \in labels : candidate = lgtmLabel

\* The reconciliation that adds whenever the command is approve.
ReconcileAlwaysAdd(hasLGTM, wantLGTM) ==
    IF hasLGTM /\ ~wantLGTM THEN "remove"
    ELSE IF wantLGTM THEN "add"
    ELSE "none"

\* lgtm.go:164, 167: the branch of the reconciliation that is taken.
Reconcile(hasLGTM, wantLGTM) ==
    IF hasLGTM /\ ~wantLGTM THEN "remove"
    ELSE IF ~hasLGTM /\ wantLGTM THEN "add"
    ELSE "none"

\* The notification recognised by its body alone, whoever wrote it.
IsStaleNotiAnyAuthor(comment, botname) ==
    comment.Body = removeLGTMLabelNoti

\* lgtm.go:182
IsStaleNoti(comment, botname) ==
    comment.User = botname /\ comment.Body = removeLGTMLabelNoti

\* lgtm.go:181-182: the loop skips the comments that are not stale notifications.
RECURSIVE SkipToStale(_, _)
SkipToStale(comments, botname) ==
    IF comments = <<>> THEN <<>>
    ELSE IF IsStaleNoti(Head(comments), botname) THEN comments
    ELSE SkipToStale(Tail(comments), botname)

\* plugins.FormatResponseRaw: mention the commenting actor, append the message.
FormatResponseRaw(user, resp) == "@" \o user \o ": " \o resp

\* lgtm.go:117
RespSelf == "you cannot LGTM your own PR."

\* The message chosen on the answer alone, whether or not the query failed.
AssignFailedMsgAnswerOnly(isCollab, org, repo) ==
    IF ~isCollab.ok
    THEN "only " \o org \o "/" \o repo \o " repo collaborators may be assigned issues"
    ELSE "assigning you to the PR failed"

\* lgtm.go:123-125
AssignFailedMsg(isCollab, org, repo) ==
    IF isCollab.err = Nil /\ ~isCollab.ok
    THEN "only " \o org \o "/" \o repo \o " repo collaborators may be assigned issues"
    ELSE "assigning you to the PR failed"

\* lgtm.go:131
RespAssign(msg) == "changing LGTM is restricted to assignees, and " \o msg \o "."

\* lgtm.go:146
RespOwners == "adding LGTM is restricted to approvers and reviewers in OWNERS files."

-----------------------------------------------------------------------------
(* The handler invocation and the remote platform *)

\* github.Client.BotName
BotLogin == "k8s-ci-robot"

\* One more external call in the invocation's call log, with the error it returned.
Call(hh, op, arg, err) ==
    [hh EXCEPT !.calls = Append(@, [op |-> op, arg |-> arg, err |-> err])]

\* return r
Return(hh, r) == [hh EXCEPT !.pc = "done", !.ret = r]

Goto(hh, pc) == [hh EXCEPT !.pc = pc]

\* The platform's answer to a createComment: the comment exists, authored by the bot.
PostComment(g, text) ==
    [g EXCEPT !.comments = Append(@, [ID |-> g.nextID, User |-> BotLogin, Body |-> text]),
              !.nextID = @ + 1]

\* The errors a removeLabel can return: LabelNotFound when the label is not on the
\* pull request, success when it is, any other failure at any time.
RemoveLabelErrs(g) ==
    (IF lgtmLabel \in g.labels THEN {Nil} ELSE {LabelNotFound}) \cup {Error}

RemoveLabelEffect(g, err) ==
    IF err = Nil THEN [g EXCEPT !.labels = @ \ {lgtmLabel}] ELSE g

RECURSIVE WithoutComment(_, _)
WithoutComment(comments, id) ==
    IF comments = <<>> THEN <<>>
    ELSE IF Head(comments).ID = id THEN WithoutComment(Tail(comments), id)
    ELSE <<Head(comments)>> \o WithoutComment(Tail(comments), id)

\* The ownership views and changed-file lists the collaborators can answer with.
Files == {"a.go", "b.go"}
NoOwners == [f \in Files |-> [approvers |-> {}, reviewers |-> {}]]
OwnersViews ==
    { [f \in Files |-> IF f = "a.go" THEN [approvers |-> {"alice"}, reviewers |-> {}]
                                     ELSE [approvers |-> {}, reviewers |-> {"bob"}]],
      [f \in Files |-> IF f = "a.go" THEN [approvers |-> {}, reviewers |-> {"Bob"}]
                                     ELSE [approvers |-> {}, reviewers |-> {}]] }
ChangeLists == { <<>>, <<"a.go">>, <<"b.go">>, <<"a.go", "b.go">> }

-----------------------------------------------------------------------------
(* handle, lgtm.go:81-190: one step per external call.  A step maps the        *)
(* invocation hh and the remote state g to the set of possible successors.    *)

\* lgtm.go:83-150, up to the first external call.
HandleStartStep(hh, g, cfg) ==
    IF ~(hh.kind = "comment" /\ hh.pc = "start") THEN {}
    ELSE LET e == hh.e
             want == Classify(e.Body)
             h1 == [hh EXCEPT !.wantLGTM = (want = "approve")]
             branch == AuthBranch(IsAuthor(e), IsAssignee(e),
                                  skipCollaborators(cfg, e.Org, e.Repo), h1.wantLGTM)
         IN  IF ~Considered(e) \/ want = "none" THEN { <<Return(hh, Nil), g>> }
             ELSE IF branch = "self"
                  THEN { <<[h1 EXCEPT !.pc = "CreateComment", !.resp = RespSelf], g>> }
             ELSE IF branch = "assign" THEN { <<Goto(h1, "AssignIssue"), g>> }
             ELSE IF branch = "owners" THEN { <<Goto(h1, "GetPullRequest"), g>> }
             ELSE { <<Goto(h1, "GetIssueLabels"), g>> }

\* The assignment whose failure is ignored.
AssignIssueStepIgnoreError(hh, g) ==
    IF ~(hh.kind = "comment" /\ hh.pc = "AssignIssue") THEN {}
    ELSE { <<Goto(Call(hh, "AssignIssue", hh.e.User, err), "GetIssueLabels"), g>>
           : err \in {Nil, Error} }

\* The assignment of the pull request's author instead of the commenter.
AssignIssueStepWrongUser(hh, g) ==
    IF ~(hh.kind = "comment" /\ hh.pc = "AssignIssue") THEN {}
    ELSE { <<Goto(Call(hh, "AssignIssue", hh.e.IssueAuthor, err),
                  IF err = Nil THEN "GetIssueLabels" ELSE "IsCollaborator"), g>>
           : err \in {Nil, Error} }

\* lgtm.go:122
AssignIssueStep(hh, g) ==
    IF ~(hh.kind = "comment" /\ hh.pc = "AssignIssue") THEN {}
    ELSE { <<Goto(Call(hh, "AssignIssue", hh.e.User, err),
                  IF err = Nil THEN "GetIssueLabels" ELSE "IsCollaborator"), g>>
           : err \in {Nil, Error} }

\* lgtm.go:123-132
IsCollaboratorStep(hh, g) ==
    IF ~(hh.kind = "comment" /\ hh.pc = "IsCollaborator") THEN {}
    ELSE { <<[Call(hh, "IsCollaborator", hh.e.User, r.err)
                EXCEPT !.pc = "CreateComment",
                       !.isCollab = r,
                       !.resp = RespAssign(AssignFailedMsg(r, hh.e.Org, hh.e.Repo))], g>>
           : r \in { [ok |-> TRUE, err |-> Nil], [ok |-> FALSE, err |-> Nil],
                     [ok |-> FALSE, err |-> Error] } }

\* The rejection comment whose posting error is dropped.
CreateCommentStepSwallow(hh, g) ==
    IF ~(hh.kind = "comment" /\ hh.pc = "CreateComment") THEN {}
    ELSE LET text == FormatResponseRaw(hh.e.User, hh.resp)
         IN  { <<Return(Call(hh, "CreateComment", text, err), Nil),
                 IF err = Nil THEN PostComment(g, text) ELSE g>>
               : err \in {Nil, Error} }

\* lgtm.go:119, 133, 148
CreateCommentStep(hh, g) ==
    IF ~(hh.kind = "comment" /\ hh.pc = "CreateComment") THEN {}
    ELSE LET text == FormatResponseRaw(hh.e.User, hh.resp)
         IN  { <<Return(Call(hh, "CreateComment", text, err), err),
                 IF err = Nil THEN PostComment(g, text) ELSE g>>
               : err \in {Nil, Error} }

\* The pull request fetch whose failure does not stop the owners path.
GetPullRequestStepProceed(hh, g) ==
    IF ~(hh.kind = "comment" /\ hh.pc = "GetPullRequest") THEN {}
    ELSE { <<Goto(Call(hh, "GetPullRequest", "", err), "LoadRepoOwners"), g>>
           : err \in {Nil, Error} }

\* lgtm.go:240-243
GetPullRequestStep(hh, g) ==
    IF ~(hh.kind = "comment" /\ hh.pc = "GetPullRequest") THEN {}
    ELSE { <<IF err = Nil THEN Goto(Call(hh, "GetPullRequest", "", err), "LoadRepoOwners")
                          ELSE Return(Call(hh, "GetPullRequest", "", err), err), g>>
           : err \in {Nil, Error} }

\* lgtm.go:244, 137-140
LoadRepoOwnersStep(hh, g) ==
    IF ~(hh.kind = "comment" /\ hh.pc = "LoadRepoOwners") THEN {}
    ELSE { <<[Call(hh, "LoadRepoOwners", "", Nil)
                EXCEPT !.pc = "GetPullRequestChanges", !.ro = ro], g>>
           : ro \in OwnersViews }
         \cup { <<Return(Call(hh, "LoadRepoOwners", "", Error), Error), g>> }

\* lgtm.go:141-150, 248-257
GetPullRequestChangesStep(hh, g) ==
    IF ~(hh.kind = "comment" /\ hh.pc = "GetPullRequestChanges") THEN {}
    ELSE { <<IF OwnersAllow(hh.ro, filenames, hh.e.User)
             THEN [Call(hh, "GetPullRequestChanges", "", Nil)
                     EXCEPT !.pc = "GetIssueLabels", !.filenames = filenames]
             ELSE [Call(hh, "GetPullRequestChanges", "", Nil)
                     EXCEPT !.pc = "CreateComment", !.filenames = filenames,
                            !.resp = RespOwners], g>>
           : filenames \in ChangeLists }
         \cup { <<Return(Call(hh, "GetPullRequestChanges", "", Error), Error), g>> }

\* The label fetch whose failure aborts the handler.
GetIssueLabelsStepAbort(hh, g) ==
    IF ~(hh.kind = "comment" /\ hh.pc = "GetIssueLabels") THEN {}
    ELSE { LET labels == g.labels
               h1 == [Call(hh, "GetIssueLabels", "", Nil)
                        EXCEPT !.labels = labels, !.hasLGTM = HasLGTM(labels)]
               branch == Reconcile(h1.hasLGTM, h1.wantLGTM)
           IN  <<IF branch = "remove" THEN Goto(h1, "RemoveLabel")
                 ELSE IF branch = "add" THEN Goto(h1, "AddLabel")
                 ELSE Return(h1, Nil), g>> }
         \cup { <<Return(Call(hh, "GetIssueLabels", "", Error), Error), g>> }

\* lgtm.go:153-167, 189
GetIssueLabelsStep(hh, g) ==
    IF ~(hh.kind = "comment" /\ hh.pc = "GetIssueLabels") THEN {}
    ELSE { LET labels == IF err = Nil THEN g.labels ELSE {}
               h1 == [Call(hh, "GetIssueLabels", "", err)
                        EXCEPT !.labels = labels, !.hasLGTM = HasLGTM(labels)]
               branch == Reconcile(h1.hasLGTM, h1.wantLGTM)
           IN  <<IF branch = "remove" THEN Goto(h1, "RemoveLabel")
                 ELSE IF branch = "add" THEN Goto(h1, "AddLabel")
                 ELSE Return(h1, Nil), g>>
           : err \in {Nil, Error} }

\* lgtm.go:166
RemoveLabelStep(hh, g) ==
    IF ~(hh.kind = "comment" /\ hh.pc = "RemoveLabel") THEN {}
    ELSE { <<Return(Call(hh, "RemoveLabel", lgtmLabel, err), err), RemoveLabelEffect(g, err)>>
           : err \in RemoveLabelErrs(g) }

\* The addition that is rolled back with a removal when it fails.
AddLabelStepRollback(hh, g) ==
    IF ~(hh.kind = "comment" /\ hh.pc = "AddLabel") THEN {}
    ELSE { <<Goto(Call(hh, "AddLabel", lgtmLabel, Nil), "BotName"),
             [g EXCEPT !.labels = @ \cup {lgtmLabel}]>>,
           <<Goto(Call(hh, "AddLabel", lgtmLabel, Error), "RemoveLabel"), g>> }

\* The addition whose failure is tolerated: the handler goes on to the cleanup.
AddLabelStepTolerant(hh, g) ==
    IF ~(hh.kind = "comment" /\ hh.pc = "AddLabel") THEN {}
    ELSE { <<Goto(Call(hh, "AddLabel", lgtmLabel, Nil), "BotName"),
             [g EXCEPT !.labels = @ \cup {lgtmLabel}]>>,
           <<Goto(Call(hh, "AddLabel", lgtmLabel, Error), "BotName"), g>> }

\* lgtm.go:169-171
AddLabelStep(hh, g) ==
    IF ~(hh.kind = "comment" /\ hh.pc = "AddLabel") THEN {}
    ELSE { <<Goto(Call(hh, "AddLabel", lgtmLabel, Nil), "BotName"),
             [g EXCEPT !.labels = @ \cup {lgtmLabel}]>>,
           <<Return(Call(hh, "AddLabel", lgtmLabel, Error), Error), g>> }

\* lgtm.go:173-176
BotNameStep(hh, g) ==
    IF ~(hh.kind = "comment" /\ hh.pc = "BotName") THEN {}
    ELSE { <<[Call(hh, "BotName", "", err)
                EXCEPT !.pc = "ListIssueComments",
                       !.botname = IF err = Nil THEN BotLogin ELSE ""], g>>
           : err \in {Nil, Error} }

\* After a comment of the loop of lgtm.go:181-187: on to the next stale
\* notification, or return nil (lgtm.go:189).
Cleanup(hh, comments) ==
    LET todo == SkipToStale(comments, hh.botname)
    IN  IF todo = <<>> THEN Return([hh EXCEPT !.todo = <<>>], Nil)
        ELSE [hh EXCEPT !.pc = "DeleteComment", !.todo = todo]

\* lgtm.go:177-182
ListIssueCommentsStep(hh, g) ==
    IF ~(hh.kind = "comment" /\ hh.pc = "ListIssueComments") THEN {}
    ELSE { LET comments == IF err = Nil THEN g.comments ELSE <<>>
           IN  <<Cleanup([Call(hh, "ListIssueComments", "", err)
                            EXCEPT !.comments = comments], comments), g>>
           : err \in {Nil, Error} }

\* lgtm.go:183-187
DeleteCommentStep(hh, g) ==
    IF ~(hh.kind = "comment" /\ hh.pc = "DeleteComment") THEN {}
    ELSE LET comment == Head(hh.todo)
         IN  { <<Cleanup(Call(hh, "DeleteComment", comment.ID, err), Tail(hh.todo)),
                 IF err = Nil
                 THEN [g EXCEPT !.comments = WithoutComment(@, comment.ID)] ELSE g>>
               : err \in {Nil, Error} }

-----------------------------------------------------------------------------
(* handlePullRequest, lgtm.go:197-227 *)

\* lgtm.go:198-204
PRStartStep(hh, g) ==
    IF ~(hh.kind = "pr" /\ hh.pc = "start") THEN {}
    ELSE IF hh.e.Merged THEN { <<Return(hh, Nil), g>> }
    ELSE IF hh.e.Action # PullRequestActionSynchronize THEN { <<Return(hh, Nil), g>> }
    ELSE { <<Goto(hh, "RemoveLabel"), g>> }

\* The removal that notifies also when the label was not there.
PRRemoveLabelStepAlwaysNotify(hh, g) ==
    IF ~(hh.kind = "pr" /\ hh.pc = "RemoveLabel") THEN {}
    ELSE { LET h1 == Call(hh, "RemoveLabel", lgtmLabel, err)
               labelNotFound == (err = LabelNotFound)
           IN  <<IF err # Nil /\ ~labelNotFound THEN Return(h1, Error)
                 ELSE Goto(h1, "CreateComment"), RemoveLabelEffect(g, err)>>
           : err \in RemoveLabelErrs(g) }

\* lgtm.go:212-222, 226
PRRemoveLabelStep(hh, g) ==
    IF ~(hh.kind = "pr" /\ hh.pc = "RemoveLabel") THEN {}
    ELSE { LET h1 == Call(hh, "RemoveLabel", lgtmLabel, err)
               labelNotFound == (err = LabelNotFound)
           IN  <<IF err # Nil /\ ~labelNotFound THEN Return(h1, Error)
                 ELSE IF ~labelNotFound THEN Goto(h1, "CreateComment")
                 ELSE Return(h1, Nil), RemoveLabelEffect(g, err)>>
           : err \in RemoveLabelErrs(g) }

\* lgtm.go:223-224
PRCreateCommentStep(hh, g) ==
    IF ~(hh.kind = "pr" /\ hh.pc = "CreateComment") THEN {}
    ELSE { <<Return(Call(hh, "CreateComment", removeLGTMLabelNoti, err), err),
             IF err = Nil THEN PostComment(g, removeLGTMLabelNoti) ELSE g>>
           : err \in {Nil, Error} }

-----------------------------------------------------------------------------
(* Inputs *)

Logins == {"alice", "Bob"}
Authors == {"alice"}
Org == "kubernetes"
Repo == "test-infra"

\* Comment bodies, as sequences of lines, for the handler.
HandlerBodies ==
    { <<Runes("/lgtm")>>, <<Runes("/lgtm cancel")>>, <<Runes("looks fine to me")>>,
      <<Runes("/lgtm cancel"), Runes("/LGTM no-issue ")>> }

\* The events the handler is given: all three conditions of lgtm.go:83 met, one of
\* them not met, none of them met.
Gates ==
    { <<TRUE, "open", GenericCommentActionCreated>>,
      <<FALSE, "open", GenericCommentActionCreated>>,
      <<TRUE, "closed", GenericCommentActionCreated>>,
      <<TRUE, "open", "edited">>,
      <<FALSE, "closed", "edited">> }

\* github.GenericCommentEvent
CommentEvents ==
    { e \in [ IsPR : BOOLEAN, IssueState : {"open", "closed"},
              Action : {GenericCommentActionCreated, "edited"},
              Body : HandlerBodies, User : Logins, IssueAuthor : Authors,
              Assignees : SUBSET Logins, Org : {Org}, Repo : {Repo} ]
      : <<e.IsPR, e.IssueState, e.Action>> \in Gates }

\* github.PullRequestEvent
PullRequestEvents ==
    [ Merged : BOOLEAN, Action : {PullRequestActionSynchronize, "opened"} ]

\* config.Owners.SkipCollaborators
Configs ==
    { {}, {"kubernetes"}, {"kubernetes/test-infra"},
      {"kubernetes-sigs", "kubernetes/test"} }

\* The kinds of comment a pull request carries before the handler runs.
CommentKinds ==
    { [User |-> BotLogin, Body |-> removeLGTMLabelNoti],
      [User |-> BotLogin, Body |-> "@Bob: you cannot LGTM your own PR."],
      [User |-> "Bob", Body |-> removeLGTMLabelNoti] }

CommentLists ==
    UNION { { [i \in 1..n |-> [ID |-> i, User |-> k[i].User, Body |-> k[i].Body]]
              : k \in [1..n -> CommentKinds] } : n \in 0..MaxComments }

Remotes ==
    { [labels |-> ls, comments |-> cs, nextID |-> Len(cs) + 1]
      : ls \in SUBSET {lgtmLabel, "approved"}, cs \in CommentLists }

\* The locals of an invocation before its first statement.
Invocation(kind, e) ==
    [ kind |-> kind, pc |-> "start", e |-> e,
      wantLGTM |-> FALSE, hasLGTM |-> FALSE, labels |-> {},
      isCollab |-> [ok |-> FALSE, err |-> Nil],
      ro |-> NoOwners, filenames |-> <<>>, botname |-> "", comments |-> <<>>,
      todo |-> <<>>,
      resp |-> "", calls |-> <<>>, ret |-> "none" ]

\* Lines of comment bodies for the classification.
LinePool ==
    { Runes("/lgtm"), Runes("/LGTM"), Runes("/lgtm no-issue"), Runes("/lgtm \t"),
      Runes("/lgtm cancel"), Runes("/Lgtm Cancel \r"), Runes(" /lgtm"),
      Runes("/lgtm cancel please"), Runes("/lgtm no-issue cancel"), Runes("lgtm"),
      <<>>,
      \* "/lgtm no-i" U+017F U+017F "ue" and "/lgtm no-i" U+017F "sue"
      Runes("/lgtm no-i") \o <<383, 383>> \o Runes("ue"),
      Runes("/lgtm no-i") \o <<383>> \o Runes("sue"),
      \* "/lgtm cancel" with U+212A, which no letter of the pattern folds to
      Runes("/lgtm cancel") \o <<8490>> }

Bodies == UNION { [1..n -> LinePool] : n \in 0..MaxBodyLines }

-----------------------------------------------------------------------------
(* The specification of one handler invocation *)

Init ==
    /\ h \in { Invocation("comment", e) : e \in CommentEvents }
             \cup { Invocation("pr", e) : e \in PullRequestEvents }
    /\ gh \in Remotes
    /\ config \in Configs
    /\ body = <<>>
    /\ class = "unset"
    /\ hs = <<>>
    /\ ownersView = NoOwners
    /\ changedFiles = <<>>
    /\ reviewerSet = [computed |-> FALSE, logins |-> {}, allowed |-> {}]

\* The invocation and the remote state move to the successor s.
Moved(s) ==
    /\ h' = s[1]
    /\ gh' = s[2]
    /\ UNCHANGED <<config, body, class, hs, ownersView, changedFiles, reviewerSet>>

HandleStart == \E s \in HandleStartStep(h, gh, config) : Moved(s)
AssignIssue == \E s \in AssignIssueStep(h, gh) : Moved(s)
IsCollaborator == \E s \in IsCollaboratorStep(h, gh) : Moved(s)
CreateComment == \E s \in CreateCommentStep(h, gh) : Moved(s)
GetPullRequest == \E s \in GetPullRequestStep(h, gh) : Moved(s)
LoadRepoOwners == \E s \in LoadRepoOwnersStep(h, gh) : Moved(s)
GetPullRequestChanges == \E s \in GetPullRequestChangesStep(h, gh) : Moved(s)
GetIssueLabels == \E s \in GetIssueLabelsStep(h, gh) : Moved(s)
RemoveLabel == \E s \in RemoveLabelStep(h, gh) : Moved(s)
AddLabel == \E s \in AddLabelStep(h, gh) : Moved(s)
BotName == \E s \in BotNameStep(h, gh) : Moved(s)
ListIssueComments == \E s \in ListIssueCommentsStep(h, gh) : Moved(s)
DeleteComment == \E s \in DeleteCommentStep(h, gh) : Moved(s)
PRStart == \E s \in PRStartStep(h, gh) : Moved(s)
PRRemoveLabel == \E s \in PRRemoveLabelStep(h, gh) : Moved(s)
PRCreateComment == \E s \in PRCreateCommentStep(h, gh) : Moved(s)

Next ==
    \/ HandleStart
    \/ AssignIssue
    \/ IsCollaborator
    \/ CreateComment
    \/ GetPullRequest
    \/ LoadRepoOwners
    \/ GetPullRequestChanges
    \/ GetIssueLabels
    \/ RemoveLabel
    \/ AddLabel
    \/ BotName
    \/ ListIssueComments
    \/ DeleteComment
    \/ PRStart
    \/ PRRemoveLabel
    \/ PRCreateComment

Spec == Init /\ [][Next]_vars

-----------------------------------------------------------------------------
(* The specification of the command classification *)

InitClassify ==
    /\ body \in Bodies
    /\ class = "unset"
    /\ h = Return(Invocation("none", <<>>), Nil)
    /\ gh = [labels |-> {}, comments |-> <<>>, nextID |-> 1]
    /\ config = {}
    /\ hs = <<>>
    /\ ownersView = NoOwners
    /\ changedFiles = <<>>
    /\ reviewerSet = [computed |-> FALSE, logins |-> {}, allowed |-> {}]

\* lgtm.go:89-96 applied to the body.
ClassifyBody ==
    /\ class = "unset"
    /\ class' = Classify(body)
    /\ UNCHANGED <<h, gh, config, body, hs, ownersView, changedFiles, reviewerSet>>

NextClassify == ClassifyBody

SpecClassify == InitClassify /\ [][NextClassify]_vars

-----------------------------------------------------------------------------
(* The specification of handlers that run concurrently on one pull request.   *)
(* Each event is handled by its own invocation; the invocations share nothing *)
(* but the remote state, and any one of them takes the next step.             *)

\* The handlers that run on the pull request, in the order their events were created.
Handlers == 1..NumHandlers

\* "/lgtm" by an assignee who is not the author, "/lgtm cancel" by the author,
\* and a push to the unmerged pull request.
ConcurrentInvocations ==
    { Invocation("comment",
        [ IsPR |-> TRUE, IssueState |-> "open", Action |-> GenericCommentActionCreated,
          Body |-> <<Runes("/lgtm")>>, User |-> "Bob", IssueAuthor |-> "alice",
          Assignees |-> {"Bob"}, Org |-> Org, Repo |-> Repo ]),
      Invocation("comment",
        [ IsPR |-> TRUE, IssueState |-> "open", Action |-> GenericCommentActionCreated,
          Body |-> <<Runes("/lgtm cancel")>>, User |-> "alice", IssueAuthor |-> "alice",
          Assignees |-> {"Bob"}, Org |-> Org, Repo |-> Repo ]),
      Invocation("pr", [ Merged |-> FALSE, Action |-> PullRequestActionSynchronize ]) }

\* The pull request before the handlers run: approved, or not approved with or
\* without the notification of an earlier push.
ConcurrentRemotes ==
    { [labels |-> {lgtmLabel}, comments |-> <<>>, nextID |-> 1],
      [labels |-> {}, comments |-> <<>>, nextID |-> 1],
      [labels |-> {},
       comments |-> <<[ID |-> 1, User |-> BotLogin, Body |-> removeLGTMLabelNoti]>>,
       nextID |-> 2] }

InitConcurrent ==
    /\ hs \in [Handlers -> ConcurrentInvocations]
    /\ gh \in ConcurrentRemotes
    /\ config = {}
    /\ h = Return(Invocation("none", <<>>), Nil)
    /\ body = <<>>
    /\ class = "unset"
    /\ ownersView = NoOwners
    /\ changedFiles = <<>>
    /\ reviewerSet = [computed |-> FALSE, logins |-> {}, allowed |-> {}]

\* The invocation p and the remote state move to the successor s.
MovedAt(p, s) ==
    /\ hs' = [hs EXCEPT ![p] = s[1]]
    /\ gh' = s[2]
    /\ UNCHANGED <<h, config, body, class, ownersView, changedFiles, reviewerSet>>

ConcHandleStart ==
    \E p \in DOMAIN hs : \E s \in HandleStartStep(hs[p], gh, config) : MovedAt(p, s)
ConcGetIssueLabels ==
    \E p \in DOMAIN hs : \E s \in GetIssueLabelsStep(hs[p], gh) : MovedAt(p, s)
ConcRemoveLabel ==
    \E p \in DOMAIN hs : \E s \in RemoveLabelStep(hs[p], gh) : MovedAt(p, s)
ConcAddLabel ==
    \E p \in DOMAIN hs : \E s \in AddLabelStep(hs[p], gh) : MovedAt(p, s)
ConcBotName ==
    \E p \in DOMAIN hs : \E s \in BotNameStep(hs[p], gh) : MovedAt(p, s)
ConcListIssueComments ==
    \E p \in DOMAIN hs : \E s \in ListIssueCommentsStep(hs[p], gh) : MovedAt(p, s)
ConcDeleteComment ==
    \E p \in DOMAIN hs : \E s \in DeleteCommentStep(hs[p], gh) : MovedAt(p, s)
ConcPRStart ==
    \E p \in DOMAIN hs : \E s \in PRStartStep(hs[p], gh) : MovedAt(p, s)
ConcPRRemoveLabel ==
    \E p \in DOMAIN hs : \E s \in PRRemoveLabelStep(hs[p], gh) : MovedAt(p, s)
ConcPRCreateComment ==
    \E p \in DOMAIN hs : \E s \in PRCreateCommentStep(hs[p], gh) : MovedAt(p, s)

NextConcurrent ==
    \/ ConcHandleStart
    \/ ConcGetIssueLabels
    \/ ConcRemoveLabel
    \/ ConcAddLabel
    \/ ConcBotName
    \/ ConcListIssueComments
    \/ ConcDeleteComment
    \/ ConcPRStart
    \/ ConcPRRemoveLabel
    \/ ConcPRCreateComment

SpecConcurrent == InitConcurrent /\ [][NextConcurrent]_vars

-----------------------------------------------------------------------------
(* loadReviewers and the membership test, lgtm.go:145, 262-268, on their own *)

\* The normalized logins that OWNERS files name.
People == {"alice", "bob"}

\* repoowners.RepoOwnerInterface: the approvers and the reviewers of each file.
AllOwnersViews ==
    [Files -> [approvers : SUBSET People, reviewers : SUBSET People]]

\* The filenames of lgtm.go:253-256, in the order of the changes.
FileLists == UNION { [1..n -> Files] : n \in 0..MaxFiles }

InitReviewers ==
    /\ h = Return(Invocation("none", <<>>), Nil)
    /\ gh = [labels |-> {}, comments |-> <<>>, nextID |-> 1]
    /\ config = {}
    /\ body = <<>>
    /\ class = "unset"
    /\ hs = <<>>
    /\ ownersView \in AllOwnersViews
    /\ changedFiles \in FileLists
    /\ reviewerSet = [computed |-> FALSE, logins |-> {}, allowed |-> {}]

\* lgtm.go:145
LoadReviewers ==
    /\ ~reviewerSet.computed
    /\ reviewerSet' =
          [computed |-> TRUE,
           logins |-> loadReviewers(ownersView, changedFiles),
           allowed |-> { commentAuthor \in Logins :
                          OwnersAllow(ownersView, changedFiles, commentAuthor) }]
    /\ UNCHANGED <<h, gh, config, body, class, hs, ownersView, changedFiles>>

NextReviewers == LoadReviewers

SpecReviewers == InitReviewers /\ [][NextReviewers]_vars

-----------------------------------------------------------------------------
(* What the properties speak of *)

Done == h.pc = "done"
CommentRun == h.kind = "comment"
PullRequestRun == h.kind = "pr"

Count(op) == Cardinality({ i \in DOMAIN h.calls : h.calls[i].op = op })
Called(op) == \E i \in DOMAIN h.calls : h.calls[i].op = op
Succeeded(op) == \E i \in DOMAIN h.calls : h.calls[i].op = op /\ h.calls[i].err = Nil
Failed(op) == \E i \in DOMAIN h.calls : h.calls[i].op = op /\ h.calls[i].err # Nil

AuthOps ==
    { "AssignIssue", "IsCollaborator", "GetPullRequest", "LoadRepoOwners",
      "GetPullRequestChanges" }
OwnersOps == { "GetPullRequest", "LoadRepoOwners", "GetPullRequestChanges" }
LabelOps == { "GetIssueLabels", "AddLabel", "RemoveLabel" }
CleanupOps == { "BotName", "ListIssueComments", "DeleteComment" }
NoCall(ops) == \A i \in DOMAIN h.calls : h.calls[i].op \notin ops

\* A created comment on an open pull request.
Accepted ==
    /\ CommentRun
    /\ h.e.IsPR
    /\ h.e.IssueState = "open"
    /\ h.e.Action = "created"

Command == IF Accepted THEN Classify(h.e.Body) ELSE "none"
ByAuthor == CommentRun /\ h.e.User = h.e.IssueAuthor
ByAssignee == CommentRun /\ h.e.User \in h.e.Assignees
\* The repository is in the skip-collaborators list: its org, or its org/repo.
SkipListed ==
    /\ CommentRun
    /\ \/ h.e.Org \in config
       \/ (h.e.Org \o "/" \o h.e.Repo) \in config

\* The union over the changed files of the approvers and reviewers of the file.
ReviewersUnion(ro, filenames) ==
    UNION { ro[filenames[i]].approvers \cup ro[filenames[i]].reviewers
            : i \in DOMAIN filenames }

\* The rejections and failures of the authorization.
SelfApproval == Command = "approve" /\ ByAuthor
AssignmentFailed == CommentRun /\ Failed("AssignIssue")
OwnersLoaded == CommentRun /\ Succeeded("GetPullRequestChanges")
NotInOwners ==
    OwnersLoaded /\ NormLogin(h.e.User) \notin ReviewersUnion(h.ro, h.filenames)
OwnersLoadError == CommentRun /\ \E op \in OwnersOps : Failed(op)

LastCall == h.calls[Len(h.calls)]

-----------------------------------------------------------------------------
(* Properties *)

\* C1: an invocation of the comment handler makes at most one label-mutating call
\* (AddLabel or RemoveLabel) in total, never one of each.
C1_AtMostOneLabelMutation ==
    CommentRun => Count("AddLabel") + Count("RemoveLabel") <= 1

\* The label was added and the cleanup deleted a stale notification.
C1_Witness ==
    /\ CommentRun /\ Done
    /\ Succeeded("AddLabel")
    /\ Called("DeleteComment")

\* C2: every authorization call comes before every GetIssueLabels, AddLabel and
\* RemoveLabel call, and an invocation whose authorization is denied or fails
\* (self-approval, failed assignment, actor not in the owners union, owners or
\* changed-files load error) makes no AddLabel and no RemoveLabel call.
C2_AuthorizationBeforeLabels ==
    CommentRun =>
        /\ \A i, j \in DOMAIN h.calls :
              (h.calls[i].op \in AuthOps /\ h.calls[j].op \in LabelOps) => i < j
        /\ (SelfApproval \/ AssignmentFailed \/ NotInOwners \/ OwnersLoadError)
              => NoCall({"AddLabel", "RemoveLabel"})

\* The owners lookups were made and passed, and the label was then removed.
C2_Witness ==
    /\ CommentRun /\ Done
    /\ OwnersLoaded
    /\ Called("RemoveLabel")

\* C3: on a self-approval (created comment, open pull request, actor = author,
\* command approve) the only external call is one CreateComment with the
\* rejection message, whatever the assignees and the skip-collaborators list are.
C3_SelfApprovalOnlyRejects ==
    SelfApproval =>
        /\ Len(h.calls) <= 1
        /\ \A i \in DOMAIN h.calls :
              /\ h.calls[i].op = "CreateComment"
              /\ h.calls[i].arg = "@" \o h.e.User \o ": you cannot LGTM your own PR."
        /\ Done => Len(h.calls) = 1

\* A self-approval by an author who is not an assignee, on a repository that is
\* not in the skip list (where a non-author would be assigned), has ended.
C3_Witness ==
    /\ SelfApproval /\ Done
    /\ ~ByAssignee /\ ~SkipListed
    /\ Len(h.calls) = 1

AuthorCancel == Command = "cancel" /\ ByAuthor

\* The label was on the pull request when the invocation began: it is still there,
\* or this invocation removed it.
LabelWasPresent == lgtmLabel \in gh.labels \/ Succeeded("RemoveLabel")

\* C4 as stated: an author's cancel makes no AssignIssue, IsCollaborator or owners
\* call and posts no comment, and when the label is present the handler makes
\* exactly one RemoveLabel call.
C4_AsStated ==
    AuthorCancel =>
        /\ NoCall(AuthOps \cup {"CreateComment"})
        /\ (Done /\ LabelWasPresent) => Count("RemoveLabel") = 1

\* C4, amended: an author's cancel makes no AssignIssue, IsCollaborator or owners
\* call and posts no comment, and when GetIssueLabels succeeds and returns the
\* label the handler makes exactly one RemoveLabel call.
C4_AuthorCancelPasses ==
    AuthorCancel =>
        /\ NoCall(AuthOps \cup {"CreateComment"})
        /\ (Done /\ Succeeded("GetIssueLabels") /\ lgtmLabel \in h.labels)
              => Count("RemoveLabel") = 1

\* The author, no assignee, cancelled on a repository in the skip list, and the
\* label was removed.
C4_Witness ==
    /\ AuthorCancel /\ Done
    /\ ~ByAssignee /\ SkipListed
    /\ Succeeded("RemoveLabel")

NonAuthorCommand == Command # "none" /\ ~ByAuthor

\* The first call is the assignment of the commenting actor, it is the only
\* assignment, and no owners lookup is made.
AssignsActorFirst ==
    /\ h.calls # <<>> =>
          (h.calls[1].op = "AssignIssue" /\ h.calls[1].arg = h.e.User)
    /\ Count("AssignIssue") <= 1
    /\ (h.pc \notin {"start", "AssignIssue"}) => Count("AssignIssue") = 1
    /\ NoCall(OwnersOps)

\* C5 as stated: for every recognized command of a non-author on a repository not
\* in the skip list the handler assigns the commenting actor (one AssignIssue
\* call) before reconciling the label, and makes no owners lookup.
C5_AsStated ==
    (NonAuthorCommand /\ ~SkipListed) => AssignsActorFirst

\* C5, amended: the same for a non-author who is not already an assignee.
C5_AssignsNonAssignee ==
    (NonAuthorCommand /\ ~SkipListed /\ ~ByAssignee) => AssignsActorFirst

\* A non-author who was no assignee was assigned, and the label was added.
C5_Witness ==
    /\ NonAuthorCommand /\ ~SkipListed /\ ~ByAssignee
    /\ Done
    /\ Succeeded("AssignIssue")
    /\ Succeeded("AddLabel")

\* C6: for a recognized command of a non-author on a repository in the skip list
\* no AssignIssue call is made, AddLabel or RemoveLabel is reached only if the
\* normalized actor is in the union of approvers and reviewers of the changed
\* files, and an actor who is not in it gets one comment and no label mutation.
C6_OwnersDecide ==
    (NonAuthorCommand /\ SkipListed) =>
        /\ NoCall({"AssignIssue", "IsCollaborator"})
        /\ (Called("AddLabel") \/ Called("RemoveLabel")) =>
              /\ OwnersLoaded
              /\ NormLogin(h.e.User) \in ReviewersUnion(h.ro, h.filenames)
        /\ (Done /\ NotInOwners) =>
              /\ Count("CreateComment") = 1
              /\ LastCall.op = "CreateComment"
              /\ NoCall(LabelOps)

\* A non-assignee whose login differs in case from its owners entry was let
\* through by the owners files and the label was added.
C6_Witness ==
    /\ NonAuthorCommand /\ SkipListed /\ ~ByAssignee
    /\ Done
    /\ h.e.User # NormLogin(h.e.User)
    /\ Succeeded("AddLabel")

\* C7: when the fetched labels contain the label and the command is approve, the
\* handler makes no AddLabel, RemoveLabel or cleanup call and returns success;
\* when they do not contain it and the command is cancel, it makes no
\* RemoveLabel and no AddLabel call and returns success.
C7_Idempotent ==
    (CommentRun /\ Called("GetIssueLabels")) =>
        /\ (Command = "approve" /\ lgtmLabel \in h.labels) =>
              /\ NoCall({"AddLabel", "RemoveLabel"} \cup CleanupOps)
              /\ Done /\ h.ret = Nil
        /\ (Command = "cancel" /\ lgtmLabel \notin h.labels) =>
              /\ NoCall({"AddLabel", "RemoveLabel"})
              /\ Done /\ h.ret = Nil

\* An approve found the label among several fetched labels.
C7_Witness ==
    /\ CommentRun /\ Done
    /\ Command = "approve"
    /\ Succeeded("GetIssueLabels")
    /\ h.labels = {lgtmLabel, "approved"}

\* C8: for an unmerged pull request and action synchronize the handler makes
\* exactly one RemoveLabel call; on its success it posts exactly one comment, the
\* fixed notification; on LabelNotFound it posts nothing and returns success; on
\* any other failure it posts nothing and returns an error.  For a merged pull
\* request or another action it makes no call.
C8_Synchronize ==
    (PullRequestRun /\ Done) =>
        IF ~h.e.Merged /\ h.e.Action = "synchronize"
        THEN /\ Count("RemoveLabel") = 1
             /\ h.calls[1].op = "RemoveLabel"
             /\ h.calls[1].err = Nil =>
                   /\ Len(h.calls) = 2
                   /\ h.calls[2].op = "CreateComment"
                   /\ h.calls[2].arg = "New changes are detected. LGTM label has been removed."
             /\ h.calls[1].err = LabelNotFound => (Len(h.calls) = 1 /\ h.ret = Nil)
             /\ h.calls[1].err \notin {Nil, LabelNotFound} =>
                   (Len(h.calls) = 1 /\ h.ret # Nil)
        ELSE h.calls = <<>> /\ h.ret = Nil

\* The label was removed and the notification is on the pull request.
C8_Witness ==
    /\ PullRequestRun /\ Done
    /\ Succeeded("RemoveLabel")
    /\ Succeeded("CreateComment")
    /\ gh.comments # <<>>
    /\ gh.comments[Len(gh.comments)].Body = removeLGTMLabelNoti

\* The line without its trailing whitespace.
RECURSIVE TrimRight(_)
TrimRight(l) ==
    IF l = <<>> THEN l
    ELSE IF l[Len(l)] \in Whitespace THEN TrimRight(SubSeq(l, 1, Len(l) - 1))
    ELSE l

\* The line with every rune replaced by the representative of its case orbit.
FoldLine(l) == [i \in DOMAIN l |-> FoldRune(l[i])]

ApproveCommands == {Runes("/lgtm"), Runes("/lgtm no-issue")}
CancelCommands == {Runes("/lgtm cancel")}

\* A '/lgtm' or '/lgtm no-issue' line, and a '/lgtm cancel' line: the whole line,
\* trailing whitespace trimmed, equal to the command up to case folding.
ApproveLine(l) == FoldLine(TrimRight(l)) \in ApproveCommands
CancelLine(l) == FoldLine(TrimRight(l)) \in CancelCommands
HasApproveLine(b) == \E i \in DOMAIN b : ApproveLine(b[i])
HasCancelLine(b) == \E i \in DOMAIN b : CancelLine(b[i])

\* C9 as stated: the classification is cancel for every body with a '/lgtm cancel'
\* line, approve for every body with a '/lgtm' or '/lgtm no-issue' line and no
\* cancel line, none otherwise; and the two patterns never both match a comment.
C9_AsStated ==
    class # "unset" =>
        /\ class = IF HasCancelLine(body) THEN "cancel"
                   ELSE IF HasApproveLine(body) THEN "approve"
                   ELSE "none"
        /\ ~(lgtmRe(body) /\ lgtmCancelRe(body))

\* C9, amended: the classification is approve for every body with a '/lgtm' or
\* '/lgtm no-issue' line, also when it has a cancel line; cancel for every body
\* with a '/lgtm cancel' line and no approve line; none otherwise.  The two
\* patterns never both match the same line.
C9_ApproveDecides ==
    class # "unset" =>
        /\ class = IF HasApproveLine(body) THEN "approve"
                   ELSE IF HasCancelLine(body) THEN "cancel"
                   ELSE "none"
        /\ \A i \in DOMAIN body : ~(LgtmReLine(body[i]) /\ LgtmCancelReLine(body[i]))

\* A body with a cancel line and an approve line was classified.
C9_Witness ==
    /\ class = "approve"
    /\ HasCancelLine(body)
    /\ HasApproveLine(body)

\* A user-input rejection: self-approval, failed assignment, actor not in the
\* owners union.
Rejection == SelfApproval \/ AssignmentFailed \/ NotInOwners

\* C10 as stated: every rejection posts exactly one comment and the handler then
\* returns no error, for every outcome of the external calls on that path.
C10_AsStated ==
    (Rejection /\ Done) =>
        /\ Count("CreateComment") = 1
        /\ h.ret = Nil

\* C10, amended: every rejection makes exactly one CreateComment call, as its
\* last call, and the handler returns what that call returned: no error when the
\* comment was posted, the call's error when it was not.
C10_RejectionReturnsCommentResult ==
    (Rejection /\ Done) =>
        /\ Count("CreateComment") = 1
        /\ LastCall.op = "CreateComment"
        /\ h.ret = LastCall.err

\* An assignment failed, IsCollaborator failed too, the comment was posted and
\* the handler returned success.
C10_Witness ==
    /\ Done
    /\ AssignmentFailed
    /\ Failed("IsCollaborator")
    /\ Succeeded("CreateComment")
    /\ h.ret = Nil

\* The assignment failed and the cause is not that the actor is no collaborator:
\* IsCollaborator answered true, or failed itself.
AssignmentFailedOtherwise ==
    /\ AssignmentFailed
    /\ Called("IsCollaborator")
    /\ (h.isCollab.ok \/ h.isCollab.err # Nil)

\* C11 as stated: when AssignIssue fails and the cause is not a non-collaborator
\* actor, the comment handler returns an error to its caller.
C11_AsStated ==
    (AssignmentFailedOtherwise /\ Done) => h.ret # Nil

\* C11, amended: when AssignIssue fails and the cause is not a non-collaborator
\* actor, the handler posts the "assigning you to the PR failed" comment as its
\* last call, touches no label, and returns what CreateComment returned; the
\* assignment failure itself is never returned.
C11_AssignmentFailureIsCommented ==
    (AssignmentFailedOtherwise /\ Done) =>
        /\ Count("CreateComment") = 1
        /\ LastCall.op = "CreateComment"
        /\ LastCall.arg = "@" \o h.e.User
               \o ": changing LGTM is restricted to assignees, "
               \o "and assigning you to the PR failed."
        /\ h.ret = LastCall.err
        /\ NoCall(LabelOps \cup CleanupOps)

\* AssignIssue failed for a collaborator, the comment was posted and the handler
\* returned success.
C11_Witness ==
    /\ Done
    /\ AssignmentFailedOtherwise
    /\ h.isCollab.ok
    /\ Succeeded("CreateComment")
    /\ h.ret = Nil

\* An event the comment handler ignores: not on a pull request, not on an open
\* one, not a creation, or without a command line in its body.
IgnoredEvent ==
    /\ CommentRun
    /\ \/ ~h.e.IsPR
       \/ h.e.IssueState # "open"
       \/ h.e.Action # "created"
       \/ ~(HasApproveLine(h.e.Body) \/ HasCancelLine(h.e.Body))

\* C12: for an ignored event the comment handler makes no external call at all
\* and returns success.
C12_IgnoredEventsAreNoOps ==
    IgnoredEvent =>
        /\ h.calls = <<>>
        /\ h.pc \in {"start", "done"}
        /\ Done => h.ret = Nil

\* The handler is done with a "/lgtm" comment on a pull request that is not
\* open, without a call.
C12_Witness ==
    /\ Done
    /\ CommentRun
    /\ h.e.IsPR
    /\ h.e.IssueState # "open"
    /\ HasApproveLine(h.e.Body)
    /\ h.calls = <<>>
    /\ h.ret = Nil

\* The label fetch of the comment handler failed.
FetchFailed == CommentRun /\ Failed("GetIssueLabels")

\* C17: when GetIssueLabels fails the handler goes on as if the pull request had
\* no label, whatever the labels really are: an approve calls AddLabel, never
\* RemoveLabel, and runs the cleanup after the addition; a cancel makes no
\* RemoveLabel call, no further call at all, and returns success.
C17_FetchFailureMeansUnlabeled ==
    FetchFailed =>
        /\ Command = "approve" =>
              /\ h.pc = "AddLabel" \/ Called("AddLabel")
              /\ NoCall({"RemoveLabel"})
              /\ (Done /\ Succeeded("AddLabel")) =>
                    Called("BotName") /\ Called("ListIssueComments")
        /\ Command = "cancel" =>
              /\ Done
              /\ h.ret = Nil
              /\ LastCall.op = "GetIssueLabels"
              /\ NoCall({"RemoveLabel", "AddLabel"})

\* The fetch failed while the pull request carries the label, and the handler
\* of an approve is about to add the label.
C17_Witness ==
    /\ FetchFailed
    /\ Command = "approve"
    /\ lgtmLabel \in gh.labels
    /\ h.pc = "AddLabel"

\* The comments of a list that the bot wrote with exactly the notification text.
StaleIDs(comments) ==
    { comments[i].ID : i \in { j \in DOMAIN comments :
                                 /\ comments[j].User = "k8s-ci-robot"
                                 /\ comments[j].Body = removeLGTMLabelNoti } }

\* The comments the invocation asked to delete.
DeletedIDs ==
    { h.calls[i].arg : i \in { j \in DOMAIN h.calls : h.calls[j].op = "DeleteComment" } }

\* C18: DeleteComment is called only after a successful AddLabel of the same
\* invocation and only for listed comments of the bot whose body is exactly the
\* notification text; when BotName and ListIssueComments succeeded every such
\* comment gets one DeleteComment call; and once AddLabel succeeded the handler
\* returns success whatever BotName, ListIssueComments and DeleteComment return.
C18_CleanupIsBestEffort ==
    CommentRun =>
        /\ Called("DeleteComment") => Succeeded("AddLabel")
        /\ DeletedIDs \subseteq StaleIDs(h.comments)
        /\ Count("DeleteComment") = Cardinality(DeletedIDs)
        /\ (Done /\ Succeeded("BotName") /\ Succeeded("ListIssueComments")) =>
              DeletedIDs = StaleIDs(h.comments)
        /\ (Done /\ Succeeded("AddLabel")) => h.ret = Nil

\* Two stale notifications were listed, both deletions were called, one failed,
\* and the handler returned success.
C18_Witness ==
    /\ Done
    /\ CommentRun
    /\ Cardinality(StaleIDs(h.comments)) = 2
    /\ Count("DeleteComment") = 2
    /\ Failed("DeleteComment")
    /\ Succeeded("DeleteComment")
    /\ h.ret = Nil

\* The calls whose failure ends the comment handler.
CriticalOps ==
    { "GetPullRequest", "LoadRepoOwners", "GetPullRequestChanges",
      "AddLabel", "RemoveLabel" }

\* C19: when GetPullRequest, LoadRepoOwners or GetPullRequestChanges fails on the
\* owners path, or AddLabel or RemoveLabel fails, the comment handler returns an
\* error, makes no later external call and posts no comment.
C19_CriticalFailuresEnd ==
    CommentRun =>
        \A i \in DOMAIN h.calls :
            (h.calls[i].op \in CriticalOps /\ h.calls[i].err # Nil) =>
                /\ i = Len(h.calls)
                /\ Done
                /\ h.ret # Nil
                /\ NoCall({"CreateComment"})

\* The owners were loaded, the actor was allowed, AddLabel failed and the
\* handler returned the error.
C19_Witness ==
    /\ Done
    /\ CommentRun
    /\ Succeeded("GetPullRequestChanges")
    /\ Failed("AddLabel")
    /\ h.ret = Error

\* C20: the authorized set is the union, over the changed files, of the approvers
\* and the reviewers of each file; with no changed file it is empty, and then the
\* membership test of the owners path denies every actor.
C20_ReviewersAreTheUnion ==
    reviewerSet.computed =>
        /\ reviewerSet.logins = ReviewersUnion(ownersView, changedFiles)
        /\ \A login \in People :
              login \in reviewerSet.logins <=>
                  \E i \in DOMAIN changedFiles :
                      \/ login \in ownersView[changedFiles[i]].approvers
                      \/ login \in ownersView[changedFiles[i]].reviewers
        /\ changedFiles = <<>> =>
              /\ reviewerSet.logins = {}
              /\ reviewerSet.allowed = {}

\* Two different files changed, the first brings an approver and the second a
\* reviewer, and the set holds both.
C20_Witness ==
    /\ reviewerSet.computed
    /\ Len(changedFiles) = 2
    /\ changedFiles[1] # changedFiles[2]
    /\ ownersView[changedFiles[1]].approvers = {"alice"}
    /\ ownersView[changedFiles[1]].reviewers = {}
    /\ ownersView[changedFiles[2]].approvers = {}
    /\ ownersView[changedFiles[2]].reviewers = {"bob"}
    /\ reviewerSet.logins = {"alice", "bob"}

-----------------------------------------------------------------------------
(* Properties of concurrent handlers *)

DoneAt(p) == hs[p].pc = "done"
AllDone == hs # <<>> /\ \A p \in DOMAIN hs : DoneAt(p)
CalledBy(p, op) == \E i \in DOMAIN hs[p].calls : hs[p].calls[i].op = op
SucceededBy(p, op) ==
    \E i \in DOMAIN hs[p].calls : hs[p].calls[i].op = op /\ hs[p].calls[i].err = Nil
FailedBy(p, op) ==
    \E i \in DOMAIN hs[p].calls : hs[p].calls[i].op = op /\ hs[p].calls[i].err # Nil
\* Every external call of every handler returned without error of any kind.
NoCallFailed ==
    \A p \in DOMAIN hs : \A i \in DOMAIN hs[p].calls : hs[p].calls[i].err = Nil

IsApprove(p) == hs[p].kind = "comment" /\ HasApproveLine(hs[p].e.Body)
IsCancel(p) ==
    /\ hs[p].kind = "comment"
    /\ ~HasApproveLine(hs[p].e.Body)
    /\ HasCancelLine(hs[p].e.Body)
IsSynchronize(p) ==
    /\ hs[p].kind = "pr"
    /\ ~hs[p].e.Merged
    /\ hs[p].e.Action = "synchronize"

\* A comment of the bot with the notification text is on the pull request.
NotificationExists ==
    \E i \in DOMAIN gh.comments :
        /\ gh.comments[i].User = "k8s-ci-robot"
        /\ gh.comments[i].Body = removeLGTMLabelNoti

\* C13 as stated: a handler whose RemoveLabel returned LabelNotFound returns
\* success, whichever handler it is and however the handlers interleave.
C13_AsStated ==
    \A p \in DOMAIN hs :
        (/\ DoneAt(p)
         /\ \E i \in DOMAIN hs[p].calls :
               /\ hs[p].calls[i].op = "RemoveLabel"
               /\ hs[p].calls[i].err = LabelNotFound) =>
            hs[p].ret = Nil

\* Every handler is an authorized "/lgtm" whose label fetch succeeded and showed
\* no approval label.
AllApprovesSawNoLabel ==
    /\ hs # <<>>
    /\ \A p \in DOMAIN hs :
          /\ IsApprove(p)
          /\ SucceededBy(p, "GetIssueLabels")
          /\ lgtmLabel \notin hs[p].labels

\* C14 as stated: when concurrent "/lgtm" handlers all saw the label absent, the
\* AddLabel of a handler that finds the label already added by another returns
\* no error to the caller, whatever the platform answers, and the label that
\* was added is present once all have finished.
C14_AsStated ==
    [][ AllApprovesSawNoLabel =>
          /\ \A p \in DOMAIN hs :
                (hs[p].pc = "AddLabel" /\ lgtmLabel \in gh.labels) =>
                    hs'[p].ret # Error
          /\ (AllDone' /\ \E p \in DOMAIN hs : SucceededBy(p, "AddLabel")) =>
                lgtmLabel \in gh'.labels ]_vars

\* C14, amended: concurrent "/lgtm" handlers that all saw the label absent all
\* call AddLabel; a handler returns an error exactly when its own AddLabel call
\* was answered with an error, and then AddLabel is its last call; the label is
\* present once all have finished if some AddLabel was accepted.
C14_DuplicateAddPropagates ==
    AllApprovesSawNoLabel =>
        /\ \A p \in DOMAIN hs :
              /\ hs[p].pc = "AddLabel" \/ CalledBy(p, "AddLabel")
              /\ DoneAt(p) =>
                    /\ hs[p].ret = (IF FailedBy(p, "AddLabel") THEN Error ELSE Nil)
                    /\ FailedBy(p, "AddLabel") =>
                          hs[p].calls[Len(hs[p].calls)].op = "AddLabel"
        /\ (AllDone /\ \E p \in DOMAIN hs : SucceededBy(p, "AddLabel")) =>
              lgtmLabel \in gh.labels
        /\ (AllDone /\ \A p \in DOMAIN hs : ~FailedBy(p, "AddLabel")) =>
              /\ lgtmLabel \in gh.labels
              /\ \A p \in DOMAIN hs : hs[p].ret = Nil

\* Two "/lgtm" handlers saw the label absent; the platform accepted the AddLabel
\* of one and answered the other with an error; all are done, the label is there.
C14_Witness ==
    /\ AllApprovesSawNoLabel
    /\ AllDone
    /\ \E p \in DOMAIN hs : SucceededBy(p, "AddLabel") /\ hs[p].ret = Nil
    /\ \E p \in DOMAIN hs : FailedBy(p, "AddLabel") /\ hs[p].ret = Error
    /\ lgtmLabel \in gh.labels

\* C15 as stated: once all handlers have finished and no call failed, the bot's
\* notification exists only if the approval label is absent.
C15_AsStated ==
    (AllDone /\ NoCallFailed) =>
        (NotificationExists => lgtmLabel \notin gh.labels)

\* C16 as stated: when a push to the unmerged pull request is handled and every
\* "/lgtm" comment was created before it, the approval label is absent once all
\* handlers have finished with no call failing.
C16_AsStated ==
    (/\ AllDone
     /\ NoCallFailed
     /\ \E s \in DOMAIN hs :
           /\ IsSynchronize(s)
           /\ \A p \in DOMAIN hs : IsApprove(p) => p < s) =>
        lgtmLabel \notin gh.labels

====
